---- MODULE Spec2Model ----
(***************************************************************************)
(* DeckCheck (src/Py/deckcheck/app.py): the render -> analyse pipeline of  *)
(* one Shiny session, and the reshaping of the LLM's answer (make_frames). *)
(*                                                                         *)
(* The pipeline is two extended tasks (quarto_task, chat_task) and two     *)
(* reactive effects (run_quarto, run_chat).  An extended task has a        *)
(* status, a value and a queue of invocations made while it was running;   *)
(* when a task completes it sets status/value and flushes the reactive     *)
(* graph, which re-executes the effects that read what changed.  An        *)
(* action below is one event of the session together with the effects the  *)
(* flush that follows it executes.                                         *)
(*                                                                         *)
(* A run is numbered by the submit event that started it.  The server      *)
(* accepts a submit event whenever one arrives: run_quarto tests only      *)
(* input.file(), and quarto_task.invoke queues or starts the call; the     *)
(* busy state of the task button lives in the browser.                     *)
(*                                                                         *)
(* A completing task publishes its status and value (and the flush runs)   *)
(* before its done callback starts the next queued invocation; no other    *)
(* event is taken in between (Settled).  The render tool and the system    *)
(* temp directory are the environment: a render that exits non-zero writes *)
(* no output file, and afterwards the earlier output is either still in    *)
(* place or absent.                                                        *)
(***************************************************************************)
EXTENDS Integers, Sequences, FiniteSets, TLC

\* ---------------------------------------------------------------------
\* Bounds
\* ---------------------------------------------------------------------
MaxSubmits == 3
MaxEdits == 2

Runs == 1..MaxSubmits

\* ---------------------------------------------------------------------
\* State
\* ---------------------------------------------------------------------
VARIABLES
    file,           \* input.file() is not None
    form,           \* version of (input.audience, length, type, event)
    submits,        \* number of input.submit events received
    quarto_task,    \* extended task: status, value, run, queue
    chat_task,      \* extended task: status, value, run, src, form, queue
    tmp,            \* tempfile.gettempdir(): which run wrote each file
    modals,         \* number of ui.modal_show calls
    run_chat_deps,  \* run_chat read input.* in its last execution
    session,        \* "open", or "closed" after an unhandled effect error
    rc,             \* per run: outcome of the Render Stage
    chat_starts,    \* per run: number of chat_task executions started
    failures,       \* number of stage failures so far
    tool_read,      \* the file the last metric tool call opened, and for which run
    request,        \* per run: the form version when the run was submitted
    fresh_from,     \* the latest run submitted from Succeeded or Failed
    raw,            \* make_frames: the dictionary d returned by the LLM
    out,            \* make_frames: what the call returned or raised
    html,           \* calculate_slide_metric: the HTML rendition it opens
    metric,         \* calculate_slide_metric: the requested metric name
    metric_out,     \* calculate_slide_metric: what the call returned or raised
    chat_pc,        \* chat_task body, per execution: where it is
    chat_obj,       \* chat_task body, per execution: its local variable chat
    chat_events,    \* chat_task body, per execution: the calls made so far
    chat_res1,      \* chat_task body, per execution: outcome of the free-form turn
    chat_res2,      \* chat_task body, per execution: the value returned
    next_chat,      \* number of ChatAnthropic objects constructed so far
    text,           \* add_line_breaks: the argument text
    width,          \* add_line_breaks: the argument width
    wrapped         \* add_line_breaks: what the call returned

traceVars == <<tool_read, request, fresh_from>>

pipelineVars == <<file, form, submits, quarto_task, chat_task, tmp, modals,
                  run_chat_deps, session, rc, chat_starts, failures,
                  tool_read, request, fresh_from>>

framesVars == <<raw, out>>

metricVars == <<html, metric, metric_out>>

chatVars == <<chat_pc, chat_obj, chat_events, chat_res1, chat_res2, next_chat>>

wrapVars == <<text, width, wrapped>>

vars == <<file, form, submits, quarto_task, chat_task, tmp, modals,
          run_chat_deps, session, rc, chat_starts, failures,
          tool_read, request, fresh_from, raw, out, html, metric, metric_out,
          chat_pc, chat_obj, chat_events, chat_res1, chat_res2, next_chat,
          text, width, wrapped>>

\* ---------------------------------------------------------------------
\* Response normalizer: make_frames
\* ---------------------------------------------------------------------
\* A dictionary is a sequence of [key, val] items with distinct keys, in
\* insertion order.  A value is a scalar (a meta field) or the dictionary of
\* a ScoringCategory.
MaxScore == 10

Range(s) == {s[i] : i \in DOMAIN s}

Keys(d) == {d[i].key : i \in DOMAIN d}

Get(d, k) == d[CHOOSE i \in DOMAIN d : d[i].key = k].val

\* meta_keys with "tone" forgotten
meta_keys_without_tone ==
    <<"presentation_title", "total_slides", "percent_with_code",
      "percent_with_images", "estimated_duration_minutes">>

meta_keys ==
    <<"presentation_title", "total_slides", "percent_with_code",
      "percent_with_images", "estimated_duration_minutes", "tone">>

\* The summary fields of DeckAnalysis, in declaration order
MetaFields ==
    <<"presentation_title", "total_slides", "percent_with_code",
      "percent_with_images", "estimated_duration_minutes", "tone">>

\* The ScoringCategory fields of DeckAnalysis, in declaration order; the
\* consistency field is spelled "concistency" in the demo scripts' schema.
Categories(spelling) ==
    <<"clarity", "relevance", "visual_design", "engagement", "pacing",
      "structure", spelling, "accessibility">>

NoOut == [status |-> "none", meta |-> <<>>, evals |-> <<>>]

Raised(e) == [status |-> e, meta |-> <<>>, evals |-> <<>>]

\* one row of evals: the loop body of make_frames; the variant takes score
\* and score_after_improvements from each other's field
eval_row_swapped(kv) ==
    [category |-> kv.key,
     score |-> kv.val.score_after_improvements,
     justification |-> kv.val.justification,
     improvements |-> kv.val.improvements,
     score_after_improvements |-> kv.val.score]

eval_row(kv) ==
    [category |-> kv.key,
     score |-> kv.val.score,
     justification |-> kv.val.justification,
     improvements |-> kv.val.improvements,
     score_after_improvements |-> kv.val.score_after_improvements]

make_frames(d) ==
    IF ~(Range(meta_keys) \subseteq Keys(d))
    THEN Raised("KeyError")
    ELSE LET rest == SelectSeq(d, LAMBDA kv : kv.key \notin Range(meta_keys)) IN
         IF \E i \in DOMAIN rest : rest[i].val.kind # "category"
         THEN Raised("TypeError")
         ELSE [status |-> "ok",
               meta |-> [i \in DOMAIN meta_keys |->
                            [key |-> meta_keys[i], val |-> Get(d, meta_keys[i])]],
               evals |-> [i \in DOMAIN rest |-> eval_row(rest[i])]]

\* ---------------------------------------------------------------------
\* Metric extractor: calculate_slide_metric
\* ---------------------------------------------------------------------
\* The HTML text is a sequence of tokens: "<section" (the slide boundary the
\* text is split on), "code" (class="sourceCode"), "img" ("<img") and "text"
\* (anything else).  A percentage is held in hundredths (4000 is 40.0).
Tokens == {"<section", "code", "img", "text"}

NoFile == [exists |-> FALSE, content |-> <<>>]

NoMetric == [status |-> "none", value |-> 0]

\* html_content.split("<section")
RECURSIVE Split(_)
Split(c) ==
    IF c = <<>> THEN << <<>> >>
    ELSE IF Head(c) = "<section" THEN << <<>> >> \o Split(Tail(c))
    ELSE LET r == Split(Tail(c)) IN << <<Head(c)>> \o r[1] >> \o Tail(r)

\* sum(marker in slide for slide in slides)
RECURSIVE CountWith(_, _)
CountWith(slides, marker) ==
    IF slides = <<>> THEN 0
    ELSE (IF marker \in Range(Head(slides)) THEN 1 ELSE 0)
         + CountWith(Tail(slides), marker)

\* round(n / d * 100, 2), in hundredths: n * 10000 / d rounded half to even
Round2Percent(n, d) ==
    LET q == (10000 * n) \div d
        r == (10000 * n) % d
    IN  IF 2 * r < d THEN q
        ELSE IF 2 * r > d THEN q + 1
        ELSE IF q % 2 = 0 THEN q ELSE q + 1

\* calculate_slide_metric with an else branch that answers the slide count
calculate_slide_metric_lenient(h, m) ==
    IF ~h.exists THEN [status |-> "FileNotFoundError", value |-> 0]
    ELSE LET slides == Split(h.content)
             total_slides == Len(slides)
         IN  IF m = "code"
             THEN [status |-> "ok", value |-> Round2Percent(CountWith(slides, "code"), total_slides)]
             ELSE IF m = "images"
             THEN [status |-> "ok", value |-> Round2Percent(CountWith(slides, "img"), total_slides)]
             ELSE [status |-> "ok", value |-> total_slides]

calculate_slide_metric(h, m) ==
    IF ~h.exists THEN [status |-> "FileNotFoundError", value |-> 0]
    ELSE LET slides == Split(h.content)
             total_slides == Len(slides)
         IN  IF m = "total_slides"
             THEN [status |-> "ok", value |-> total_slides]
             ELSE IF m \in {"code", "images"} /\ total_slides = 0
             THEN [status |-> "ZeroDivisionError", value |-> 0]
             ELSE IF m = "code"
             THEN [status |-> "ok", value |-> Round2Percent(CountWith(slides, "code"), total_slides)]
             ELSE IF m = "images"
             THEN [status |-> "ok", value |-> Round2Percent(CountWith(slides, "img"), total_slides)]
             ELSE [status |-> "ValueError", value |-> 0]

MetricIdle ==
    /\ html = NoFile
    /\ metric = "total_slides"
    /\ metric_out = NoMetric

\* ---------------------------------------------------------------------
\* Tooltip helper: add_line_breaks
\* ---------------------------------------------------------------------
\* A string is a sequence of characters; "<br>" is one element of a
\* returned string.  A value that is not a string is a record of kind
\* "other".
Str(cs) == [kind |-> "str", chars |-> cs]

NotReturned == [kind |-> "none", chars |-> <<>>]

\* text.split(): the maximal runs of non-blank characters
RECURSIVE text_split(_)
text_split(cs) ==
    IF cs = <<>> THEN <<>>
    ELSE IF Head(cs) = " " THEN text_split(Tail(cs))
    ELSE LET n == CHOOSE k \in 1..Len(cs) :
                     /\ \A j \in 1..k : cs[j] # " "
                     /\ (k = Len(cs) \/ cs[k + 1] = " ")
         IN  <<SubSeq(cs, 1, n)>> \o text_split(SubSeq(cs, n + 1, Len(cs)))

\* the for loop over words, then the final append of a non-empty line
RECURSIVE wrap_loop(_, _, _, _)
wrap_loop(words, lines, current_line, w) ==
    IF words = <<>>
    THEN IF current_line # <<>> THEN Append(lines, current_line) ELSE lines
    ELSE LET word == Head(words) IN
         IF Len(current_line) + Len(word) + (IF current_line # <<>> THEN 1 ELSE 0) <= w
         THEN wrap_loop(Tail(words), lines,
                        current_line \o (IF current_line # <<>> THEN <<" ">> ELSE <<>>)
                                     \o word, w)
         ELSE wrap_loop(Tail(words), Append(lines, current_line), word, w)

\* "<br>".join(lines)
RECURSIVE br_join(_)
br_join(lines) ==
    IF lines = <<>> THEN <<>>
    ELSE IF Len(lines) = 1 THEN lines[1]
    ELSE lines[1] \o <<"<br>">> \o br_join(Tail(lines))

add_line_breaks(t, w) ==
    IF t.kind # "str" THEN t
    ELSE Str(br_join(wrap_loop(text_split(t.chars), <<>>, <<>>, w)))

WrapIdle ==
    /\ text = Str(<<>>)
    /\ width = 1
    /\ wrapped = NotReturned

\* ---------------------------------------------------------------------
\* Analysis stage: the body of chat_task
\* ---------------------------------------------------------------------
\* Executions of chat_task; those of one session run one after another,
\* those of different sessions interleave at the two awaits.
MaxInvocations == 3

Invocations == 1..MaxInvocations

NoReply == [conv |-> 0, turn |-> "none"]

\* chat = ChatAnthropic(...) is the n + 1st object constructed; the variant
\* is a module-level chat object used by every execution.
ChatAnthropic_shared(n) == 1

ChatAnthropic(n) == n + 1

ChatIdle ==
    /\ chat_pc = [i \in Invocations |-> "idle"]
    /\ chat_obj = [i \in Invocations |-> 0]
    /\ chat_events = [i \in Invocations |-> <<>>]
    /\ chat_res1 = [i \in Invocations |-> "none"]
    /\ chat_res2 = [i \in Invocations |-> NoReply]
    /\ next_chat = 0

NoResult == [run |-> 0, src |-> 0, form |-> 0]

\* The run of the latest submission that passed req(input.file() is not None).
Active ==
    IF \E r \in Runs : rc[r] # "none"
    THEN CHOOSE r \in Runs : rc[r] # "none" /\ \A s \in Runs : rc[s] # "none" => s <= r
    ELSE 0

\* A completed task whose done callback has still to start the queued call.
CallbackPending(task) == task.status # "running" /\ task.queue # <<>>

Settled == ~CallbackPending(quarto_task) /\ ~CallbackPending(chat_task)

\* ---------------------------------------------------------------------
\* results(): what the presentation layer is told to display
\* ---------------------------------------------------------------------
PipelineState ==
    IF quarto_task.status = "running" THEN "Rendering"
    ELSE IF chat_task.status = "running" THEN "Analyzing"
    ELSE IF chat_task.status = "success" THEN "Succeeded"
    ELSE IF quarto_task.status = "initial" THEN "Idle"
    ELSE "Failed"

\* analysis_result(): the result the success view displays
analysis_result == IF chat_task.status = "success" THEN chat_task.value ELSE NoResult

\* ---------------------------------------------------------------------
\* Extended tasks
\* ---------------------------------------------------------------------
\* quarto_task.invoke(file_path, temp_dir) for run r
quarto_invoke(q, r) ==
    IF q.status = "running"
    THEN [q EXCEPT !.queue = Append(@, r)]
    ELSE [q EXCEPT !.status = "running", !.value = "None", !.run = r]

\* chat_task.invoke(system_prompt, markdown_content, DeckAnalysis)
chat_invoke(c, inv) ==
    IF c.status = "running"
    THEN [c EXCEPT !.queue = Append(@, inv)]
    ELSE [c EXCEPT !.status = "running", !.value = NoResult,
                   !.run = inv.run, !.src = inv.src, !.form = inv.form]

Bump(st, r) == [st EXCEPT ![r] = @ + 1]

\* ---------------------------------------------------------------------
\* run_chat: the effect executed by a flush after quarto_task or an input
\* it read has changed.  q, t, f: quarto_task, tmp and form after the event.
\* ---------------------------------------------------------------------
run_chat(q, t, f) ==
    IF q.status = "error"
    THEN \* quarto_task.result() re-raises outside the try block
         [chat |-> chat_task, starts |-> chat_starts, modals |-> modals,
          deps |-> FALSE, session |-> "closed"]
    ELSE IF q.status # "success"
    THEN \* req(...) stops the effect silently
         [chat |-> chat_task, starts |-> chat_starts, modals |-> modals,
          deps |-> FALSE, session |-> "open"]
    ELSE IF t.md = 0
    THEN \* markdown_file.read_text raises: the except branch shows the modal
         [chat |-> chat_task, starts |-> chat_starts, modals |-> modals + 1,
          deps |-> FALSE, session |-> "open"]
    ELSE [chat |-> chat_invoke(chat_task, [run |-> q.run, src |-> t.md, form |-> f]),
          starts |-> IF chat_task.status = "running" THEN chat_starts
                     ELSE Bump(chat_starts, q.run),
          modals |-> modals, deps |-> TRUE, session |-> "open"]

\* ---------------------------------------------------------------------
\* Initial state: a fresh session, nothing uploaded, an empty work directory
\* ---------------------------------------------------------------------
PipelineInit ==
    /\ file = FALSE
    /\ form = 0
    /\ submits = 0
    /\ quarto_task = [status |-> "initial", value |-> "None", run |-> 0, queue |-> <<>>]
    /\ chat_task = [status |-> "initial", value |-> NoResult, run |-> 0, src |-> 0,
                    form |-> 0, queue |-> <<>>]
    /\ tmp = [qmd |-> 0, md |-> 0, html |-> 0]
    /\ modals = 0
    /\ run_chat_deps = FALSE
    /\ session = "open"
    /\ rc = [r \in Runs |-> "none"]
    /\ chat_starts = [r \in Runs |-> 0]
    /\ failures = 0
    /\ tool_read = [run |-> 0, path |-> "none", writer |-> 0]
    /\ request = [r \in Runs |-> -1]
    /\ fresh_from = 0

Init ==
    /\ PipelineInit
    /\ raw = <<>>
    /\ out = NoOut
    /\ MetricIdle
    /\ ChatIdle
    /\ WrapIdle

\* ---------------------------------------------------------------------
\* Events
\* ---------------------------------------------------------------------
\* The user uploads a presentation (ui.input_file "file").
Upload ==
    /\ session = "open" /\ Settled
    /\ ~file
    /\ file' = TRUE
    /\ UNCHANGED <<form, submits, quarto_task, chat_task, tmp, modals,
                   run_chat_deps, session, rc, chat_starts, failures>>
    /\ UNCHANGED traceVars
    /\ UNCHANGED framesVars
    /\ UNCHANGED metricVars
    /\ UNCHANGED chatVars
    /\ UNCHANGED wrapVars

\* run_quarto without its req: a submit always reaches the try block
run_quarto_req_always == TRUE

\* req(input.file() is not None) in run_quarto
run_quarto_req == file

\* input.submit: run_quarto
Submit ==
    /\ session = "open" /\ Settled
    /\ submits < MaxSubmits
    /\ submits' = submits + 1
    /\ IF ~run_quarto_req
       THEN UNCHANGED <<quarto_task, tmp, modals, run_chat_deps, rc, request, fresh_from>>
       ELSE IF ~file
       THEN \* input.file()[0] raises on None: the except branch shows the modal
            /\ modals' = modals + 1
            /\ UNCHANGED <<quarto_task, tmp, run_chat_deps, rc, request, fresh_from>>
       ELSE /\ quarto_task' = quarto_invoke(quarto_task, submits')
            /\ rc' = [rc EXCEPT ![submits'] = "pending"]
            /\ request' = [request EXCEPT ![submits'] = form]
            /\ fresh_from' = IF PipelineState \in {"Succeeded", "Failed"}
                             THEN submits' ELSE fresh_from
            /\ IF quarto_task.status = "running"
               THEN UNCHANGED <<tmp, run_chat_deps>>
               ELSE \* the task copies the upload into the slot; the status
                    \* change re-executes run_chat, which stops at its req
                    /\ tmp' = [tmp EXCEPT !.qmd = submits']
                    /\ run_chat_deps' = run_chat(quarto_task', tmp', form).deps
            /\ UNCHANGED modals
    /\ UNCHANGED <<file, form, chat_task, session, chat_starts, failures, tool_read>>
    /\ UNCHANGED framesVars
    /\ UNCHANGED metricVars
    /\ UNCHANGED chatVars
    /\ UNCHANGED wrapVars

\* The render subprocess of the running quarto_task ends.
\*   "ok":      exit 0, my-presentation.md and .html written
\*   "fail":    non-zero exit, nothing written, earlier output left in place
\*   "missing": non-zero exit, no output file present afterwards
\*   "raise":   an exception inside the task
QuartoFinish(outcome) ==
    /\ session = "open" /\ Settled
    /\ quarto_task.status = "running"
    /\ rc' = [rc EXCEPT ![quarto_task.run] = outcome]
    /\ tmp' = IF outcome = "ok"
              THEN [tmp EXCEPT !.md = quarto_task.run, !.html = quarto_task.run]
              ELSE IF outcome = "missing"
              THEN [tmp EXCEPT !.md = 0, !.html = 0]
              ELSE tmp
    /\ quarto_task' = IF outcome = "raise"
                      THEN [quarto_task EXCEPT !.status = "error"]
                      ELSE [quarto_task EXCEPT !.status = "success", !.value = "md_path"]
    /\ failures' = IF outcome = "ok" THEN failures ELSE failures + 1
    /\ LET rcx == run_chat(quarto_task', tmp', form) IN
         /\ chat_task' = rcx.chat
         /\ chat_starts' = rcx.starts
         /\ modals' = rcx.modals
         /\ run_chat_deps' = rcx.deps
         /\ session' = rcx.session
    /\ UNCHANGED <<file, form, submits>>
    /\ UNCHANGED traceVars
    /\ UNCHANGED framesVars
    /\ UNCHANGED metricVars
    /\ UNCHANGED chatVars
    /\ UNCHANGED wrapVars

\* Done callback of quarto_task: start the next queued invocation.
QuartoDone ==
    /\ session = "open"
    /\ CallbackPending(quarto_task)
    /\ quarto_task' = [quarto_task EXCEPT !.status = "running", !.value = "None",
                                          !.run = Head(quarto_task.queue),
                                          !.queue = Tail(@)]
    /\ tmp' = [tmp EXCEPT !.qmd = Head(quarto_task.queue)]
    /\ run_chat_deps' = FALSE
    /\ UNCHANGED <<file, form, submits, chat_task, modals, session, rc,
                   chat_starts, failures>>
    /\ UNCHANGED traceVars
    /\ UNCHANGED framesVars
    /\ UNCHANGED metricVars
    /\ UNCHANGED chatVars
    /\ UNCHANGED wrapVars

\* The running chat_task ends: both LLM turns returned, or one raised.
ChatFinish(outcome) ==
    /\ session = "open" /\ Settled
    /\ chat_task.status = "running"
    /\ chat_task' = IF outcome = "ok"
                    THEN [chat_task EXCEPT !.status = "success",
                            !.value = [run |-> chat_task.run, src |-> chat_task.src,
                                       form |-> chat_task.form]]
                    ELSE [chat_task EXCEPT !.status = "error"]
    /\ failures' = IF outcome = "ok" THEN failures ELSE failures + 1
    /\ UNCHANGED <<file, form, submits, quarto_task, tmp, modals, run_chat_deps,
                   session, rc, chat_starts>>
    /\ UNCHANGED traceVars
    /\ UNCHANGED framesVars
    /\ UNCHANGED metricVars
    /\ UNCHANGED chatVars
    /\ UNCHANGED wrapVars

\* Done callback of chat_task: start the next queued invocation.
ChatDone ==
    /\ session = "open"
    /\ CallbackPending(chat_task)
    /\ LET inv == Head(chat_task.queue) IN
         /\ chat_task' = [chat_task EXCEPT !.status = "running", !.value = NoResult,
                                           !.run = inv.run, !.src = inv.src,
                                           !.form = inv.form, !.queue = Tail(@)]
         /\ chat_starts' = Bump(chat_starts, inv.run)
    /\ UNCHANGED <<file, form, submits, quarto_task, tmp, modals, run_chat_deps,
                   session, rc, failures>>
    /\ UNCHANGED traceVars
    /\ UNCHANGED framesVars
    /\ UNCHANGED metricVars
    /\ UNCHANGED chatVars
    /\ UNCHANGED wrapVars

\* html_file in calculate_slide_metric: a fixed path under the working
\* directory of the process, a file that no run writes
html_file == [path |-> "./Quarto/docs/my-presentation.html", writer |-> 0]

\* During the free-form turn of the running chat_task the LLM calls the
\* registered tool, which opens html_file.
ToolCall ==
    /\ session = "open" /\ Settled
    /\ chat_task.status = "running"
    /\ tool_read' = [run |-> chat_task.run, path |-> html_file.path,
                     writer |-> html_file.writer]
    /\ UNCHANGED <<file, form, submits, quarto_task, chat_task, tmp, modals,
                   run_chat_deps, session, rc, chat_starts, failures,
                   request, fresh_from>>
    /\ UNCHANGED framesVars
    /\ UNCHANGED metricVars
    /\ UNCHANGED chatVars
    /\ UNCHANGED wrapVars

\* The user edits the audience, length, type or event input.
EditInput ==
    /\ session = "open" /\ Settled
    /\ form < MaxEdits
    /\ form' = form + 1
    /\ IF run_chat_deps
       THEN LET rcx == run_chat(quarto_task, tmp, form') IN
              /\ chat_task' = rcx.chat
              /\ chat_starts' = rcx.starts
              /\ modals' = rcx.modals
              /\ run_chat_deps' = rcx.deps
              /\ session' = rcx.session
       ELSE UNCHANGED <<chat_task, chat_starts, modals, run_chat_deps, session>>
    /\ UNCHANGED <<file, submits, quarto_task, tmp, rc, failures>>
    /\ UNCHANGED traceVars
    /\ UNCHANGED framesVars
    /\ UNCHANGED metricVars
    /\ UNCHANGED chatVars
    /\ UNCHANGED wrapVars

Next ==
    \/ Upload
    \/ Submit
    \/ \E o \in {"ok", "fail", "missing", "raise"} : QuartoFinish(o)
    \/ QuartoDone
    \/ \E o \in {"ok", "raise"} : ChatFinish(o)
    \/ ChatDone
    \/ EditInput
    \/ ToolCall

Spec == Init /\ [][Next]_vars

\* ---------------------------------------------------------------------
\* Properties of the pipeline (checked under Spec)
\* ---------------------------------------------------------------------
RECURSIVE SumStarts(_, _)
SumStarts(st, n) == IF n = 0 THEN 0 ELSE st[n] + SumStarts(st, n - 1)

\* Number of chat_task executions started so far
TotalChatStarts == SumStarts(chat_starts, MaxSubmits)

\* C1: once run B has been submitted, the completion of the superseded run
\* A is ignored: it changes neither the pipeline state nor the result that
\* analysis_result() hands to the display.
C1_SupersededRunIgnored ==
    [][(/\ chat_task.status = "running"
        /\ chat_task'.status \in {"success", "error"}
        /\ chat_task.run # Active) =>
           /\ analysis_result' = analysis_result
           /\ PipelineState' = PipelineState]_vars

\* C2: an analysis is started only on the rendition that the Render Stage
\* of the same run produced successfully, never on files of an earlier run.
C2_AnalysisOnOwnRendition ==
    chat_task.run # 0 => /\ chat_task.src = chat_task.run
                         /\ rc[chat_task.run] = "ok"

\* C3: a run whose render failed (non-zero exit, missing output or exception) has no
\* Analysis Stage invocation.
C3_NoAnalysisAfterRenderFailure ==
    \A r \in Runs : rc[r] \in {"fail", "missing", "raise"} => chat_starts[r] = 0

AllowedTransitions ==
    { <<"Idle", "Rendering">>, <<"Rendering", "Analyzing">>,
      <<"Rendering", "Failed">>, <<"Analyzing", "Succeeded">>,
      <<"Analyzing", "Failed">>, <<"Succeeded", "Rendering">>,
      <<"Failed", "Rendering">> }

\* C4: the pipeline state changes only along the transitions of the state
\* machine; Analyzing is entered only from Rendering, Succeeded only from
\* Analyzing.
C4_OnlyListedTransitions ==
    [][PipelineState' # PipelineState =>
           <<PipelineState, PipelineState'>> \in AllowedTransitions]_vars

\* C5: every stage failure, an exception inside a running task included,
\* shows exactly one error modal.
C5_OneModalPerFailure == modals = failures

\* C6: every Analysis Stage invocation is caused by a fresh submission: the
\* number of chat_task executions never exceeds the number of submit events.
C6_AnalysesAtMostSubmits == TotalChatStarts <= submits

\* C7: a submit event while no file is uploaded changes nothing: no render
\* is started, the pipeline state stays as it is and no modal is shown.
C7_SubmitWithoutFileIsNoOp ==
    [][(submits' = submits + 1 /\ ~file) =>
           /\ UNCHANGED <<file, form, quarto_task, chat_task, tmp, modals,
                          run_chat_deps, session, rc, chat_starts, failures>>
           /\ PipelineState' = PipelineState]_vars

\* A submit event has been received while no file was uploaded.
C7_Witness == submits > 0 /\ ~file /\ PipelineState = "Idle" /\ modals = 0

\* C8: the render and analysis phases of two runs never overlap.
C8_RunsNeverOverlap ==
    ~(/\ quarto_task.status = "running"
      /\ chat_task.status = "running"
      /\ quarto_task.run # chat_task.run)

\* The work-directory file next to the rendered source of a run
RunRendition(r) == [path |-> "tmp/my-presentation.html", writer |-> r]

\* C16: a metric tool call made during a run's Analysis Stage opens the
\* markup rendition that the same run's Render Stage wrote to the work
\* directory.
C16_ToolReadsOwnRendition ==
    tool_read.run # 0 =>
        /\ tool_read.path = RunRendition(tool_read.run).path
        /\ tool_read.writer = RunRendition(tool_read.run).writer

\* C17: the request of a run is fixed at submit: every analysis of the run
\* is given the input values that were present when the run was submitted.
C17_RequestFixedAtSubmit ==
    /\ chat_task.run # 0 => chat_task.form = request[chat_task.run]
    /\ \A i \in DOMAIN chat_task.queue :
          chat_task.queue[i].form = request[chat_task.queue[i].run]

\* C18: after a submit from Succeeded or Failed the result of an earlier
\* run is never displayed again, also when the new run fails.
C18_PriorResultDiscarded ==
    (session = "open" /\ PipelineState = "Succeeded") =>
        analysis_result.run >= fresh_from

\* ---------------------------------------------------------------------
\* Progress: the render subprocess and the LLM calls end, and the event
\* loop runs the done callbacks of the two extended tasks
\* ---------------------------------------------------------------------
Fairness ==
    /\ WF_vars(\E o \in {"ok", "fail", "missing", "raise"} : QuartoFinish(o))
    /\ WF_vars(QuartoDone)
    /\ WF_vars(\E o \in {"ok", "raise"} : ChatFinish(o))
    /\ WF_vars(ChatDone)

SpecLive == Init /\ [][Next]_vars /\ Fairness

\* C21: when the render call and the LLM calls end, every submission made
\* with a file present is followed by a state in which its render is over
\* and the pipeline shows Succeeded or Failed, and every successful render
\* is followed by the start of its analysis.
C21_EverySubmissionTerminates ==
    \A r \in Runs :
        /\ (rc[r] = "pending") ~>
              (session = "open" /\ rc[r] # "pending"
                 /\ PipelineState \in {"Succeeded", "Failed"})
        /\ (rc[r] = "ok") ~> (chat_starts[r] > 0)

\* ---------------------------------------------------------------------
\* make_frames applied to the dictionaries the LLM client can return
\* ---------------------------------------------------------------------
MaxRotation == 4
MaxDropped == 1
MaxSeed == 1

Min(a, b) == IF a < b THEN a ELSE b

Rotate(ks, n) == [i \in DOMAIN ks |-> ks[((i - 1 + n) % Len(ks)) + 1]]

ScalarValue(i, seed) == [kind |-> "scalar", n |-> seed + i]

CategoryValue(i, seed) ==
    [kind |-> "category",
     score |-> (seed + i) % (MaxScore + 1),
     justification |-> 100 + i,
     improvements |-> IF i % 2 = 0 THEN 0 ELSE 200 + i,
     score_after_improvements |-> Min(MaxScore, ((seed + i) % (MaxScore + 1)) + seed)]

\* The dictionary of a DeckAnalysis with the given spelling of consistency,
\* its items rotated by 3 * rot, the keys in dropped left out and, when extra is
\* not "none", one more key holding a value of that kind.
BuildRaw(spelling, rot, dropped, extra, seed) ==
    LET schema == MetaFields \o Categories(spelling)
                  \o (IF extra = "none" THEN <<>> ELSE <<"extra">>)
        value(k) == LET i == CHOOSE j \in DOMAIN schema : schema[j] = k IN
                    IF k = "extra"
                    THEN IF extra = "scalar" THEN ScalarValue(i, seed)
                         ELSE CategoryValue(i, seed)
                    ELSE IF k \in Range(MetaFields) THEN ScalarValue(i, seed)
                    ELSE CategoryValue(i, seed)
        kept == SelectSeq(Rotate(schema, 3 * rot), LAMBDA k : k \notin dropped)
    IN  [i \in DOMAIN kept |-> [key |-> kept[i], val |-> value(kept[i])]]

AllKeys == Range(MetaFields) \cup Range(Categories("consistency")) \cup {"concistency"}

InitFrames ==
    /\ PipelineInit
    /\ MetricIdle
    /\ ChatIdle
    /\ WrapIdle
    /\ out = NoOut
    /\ \E spelling \in {"consistency", "concistency"}, rot \in 0..MaxRotation,
          dropped \in {D \in SUBSET AllKeys : Cardinality(D) <= MaxDropped},
          extra \in {"none", "category", "scalar"}, seed \in 0..MaxSeed :
            raw = BuildRaw(spelling, rot, dropped, extra, seed)

\* analysis_result(): make_frames(res)
Normalize ==
    /\ out.status = "none"
    /\ out' = make_frames(raw)
    /\ UNCHANGED raw
    /\ UNCHANGED pipelineVars
    /\ UNCHANGED metricVars
    /\ UNCHANGED chatVars
    /\ UNCHANGED wrapVars

NextFrames == Normalize

SpecFrames == InitFrames /\ [][NextFrames]_vars

\* ---------------------------------------------------------------------
\* Properties of make_frames (checked under SpecFrames)
\* ---------------------------------------------------------------------
\* The six meta fields and eight categories of a RawAnalysis; the consistency
\* key is accepted in either spelling.
WellFormed(d) ==
    \E spelling \in {"consistency", "concistency"} :
        /\ Keys(d) = Range(MetaFields) \cup Range(Categories(spelling))
        /\ \A i \in DOMAIN d :
              d[i].val.kind = IF d[i].key \in Range(Categories(spelling))
                              THEN "category" ELSE "scalar"

EvalCategories(o) == {o.evals[i].category : i \in DOMAIN o.evals}

\* C9: when the raw object carries the key "concistency", the evals contain
\* an entry of category "consistency" and none of category "concistency".
C9_TypoCanonicalized ==
    (out.status # "none" /\ WellFormed(raw) /\ "concistency" \in Keys(raw)) =>
        /\ out.status = "ok"
        /\ "consistency" \in EvalCategories(out)
        /\ "concistency" \notin EvalCategories(out)

\* C10: for a well-formed raw object make_frames returns exactly 8 eval
\* entries and a meta record with exactly the 6 defined fields.
C10_EightEvalsSixMeta ==
    (out.status # "none" /\ WellFormed(raw)) =>
        /\ out.status = "ok"
        /\ Len(out.evals) = 8
        /\ Cardinality(EvalCategories(out)) = 8
        /\ Len(out.meta) = 6
        /\ {out.meta[i].key : i \in DOMAIN out.meta} = Range(MetaFields)

\* make_frames has returned for a well-formed object whose first item is an
\* evaluation category.
C10_Witness ==
    /\ out.status = "ok"
    /\ WellFormed(raw)
    /\ raw[1].key \in Range(Categories("consistency"))

\* The keys of d after the misspelled "concistency" is read as "consistency"
CanonicalKeys(d) ==
    {IF d[i].key = "concistency" THEN "consistency" ELSE d[i].key : i \in DOMAIN d}

\* C11: make_frames fails with MalformedInput whenever one of the 8 required
\* categories is absent (after canonicalization) and fails in no other case;
\* a result it returns holds exactly the 8 categories.
C11_MalformedInputRejected ==
    (out.status # "none" /\ Range(MetaFields) \subseteq Keys(raw)
       /\ \A i \in DOMAIN raw : raw[i].key \notin Range(MetaFields)
                                   => raw[i].val.kind = "category") =>
        /\ (Range(Categories("consistency")) \subseteq CanonicalKeys(raw))
              <=> out.status = "ok"
        /\ out.status \in {"ok", "MalformedInput"}
        /\ out.status = "ok" => EvalCategories(out) = Range(Categories("consistency"))

\* The items of d whose key is not one of the six summary fields, in order
NonMeta(d) == SelectSeq(d, LAMBDA kv : kv.key \notin Range(MetaFields))

\* The six summary fields are present and every other value is a record
HasMetaAndRecords(d) ==
    /\ Range(MetaFields) \subseteq Keys(d)
    /\ \A i \in DOMAIN d :
          d[i].key \notin Range(MetaFields) => d[i].val.kind = "category"

MaxHtmlLen == 4

RECURSIVE SeqsUpTo(_, _)
SeqsUpTo(S, n) ==
    IF n = 0 THEN {<<>>}
    ELSE LET shorter == SeqsUpTo(S, n - 1) IN
         shorter \cup {Append(q, x) : q \in {t \in shorter : Len(t) = n - 1}, x \in S}

\* The names of the tool's docstring, the names of the specification, and
\* one name that is in neither.
MetricNames == {"total_slides", "code", "images", "code_percent", "image_percent", "slides"}

InitMetric ==
    /\ PipelineInit
    /\ ChatIdle
    /\ WrapIdle
    /\ raw = <<>>
    /\ out = NoOut
    /\ metric_out = NoMetric
    /\ metric \in MetricNames
    /\ html \in {NoFile} \cup {[exists |-> TRUE, content |-> c] : c \in SeqsUpTo(Tokens, MaxHtmlLen)}

\* The LLM calls the tool: calculate_slide_metric(metric)
Compute ==
    /\ metric_out.status = "none"
    /\ metric_out' = calculate_slide_metric(html, metric)
    /\ UNCHANGED <<html, metric>>
    /\ UNCHANGED pipelineVars
    /\ UNCHANGED framesVars
    /\ UNCHANGED chatVars
    /\ UNCHANGED wrapVars

NextMetric == Compute

SpecMetric == InitMetric /\ [][NextMetric]_vars

\* ---------------------------------------------------------------------
\* Properties of calculate_slide_metric (checked under SpecMetric)
\* ---------------------------------------------------------------------
\* Number of slide-boundary markers in the rendition
Markers == Cardinality({i \in DOMAIN html.content : html.content[i] = "<section"})

\* The slides: what follows each slide-boundary marker
Slides == Tail(Split(html.content))

\* C12: on a rendition with N slide-boundary markers, total_slides returns N.
C12_TotalSlidesIsMarkerCount ==
    (metric = "total_slides" /\ html.exists /\ metric_out.status # "none") =>
        /\ metric_out.status = "ok"
        /\ metric_out.value = Markers

\* C13: with N >= 1 slides of which k hold a code marker (j an image marker)
\* the code (image) percentage is 100*k/N (100*j/N) rounded to 2 decimals,
\* and it lies in [0, 100].
C13_PercentOfSlides ==
    (html.exists /\ Markers >= 1 /\ metric_out.status # "none") =>
        /\ metric = "code" =>
              /\ metric_out.status = "ok"
              /\ metric_out.value = Round2Percent(CountWith(Slides, "code"), Markers)
        /\ metric = "images" =>
              /\ metric_out.status = "ok"
              /\ metric_out.value = Round2Percent(CountWith(Slides, "img"), Markers)
        /\ metric \in {"code", "images"} =>
              (0 <= metric_out.value /\ metric_out.value <= 10000)

\* C14: on a rendition without any slide-boundary marker the percentage
\* metrics fail with a division-by-zero error.
C14_ZeroSlidesDivisionError ==
    (html.exists /\ Markers = 0 /\ metric \in {"code", "images"}
       /\ metric_out.status # "none") =>
        metric_out.status = "ZeroDivisionError"

\* C15 as stated: the accepted names are total_slides, code_percent and
\* image_percent; each returns a number when the rendition exists and every
\* other name fails with InvalidMetric (ValueError).
C15_SpecMetricNames ==
    (html.exists /\ metric_out.status # "none") =>
        /\ metric \in {"total_slides", "code_percent", "image_percent"}
              => metric_out.status = "ok"
        /\ metric \notin {"total_slides", "code_percent", "image_percent"}
              => metric_out.status = "ValueError"

\* C15 as amended: when the rendition exists the accepted names are exactly
\* total_slides, code and images, each returning a number, and every other
\* name fails with ValueError; without the rendition every call fails with
\* FileNotFoundError.
C15_CodeMetricNames ==
    metric_out.status # "none" =>
        /\ html.exists =>
              /\ metric \in {"total_slides", "code", "images"}
                    => (metric_out.status = "ok" /\ metric_out.value >= 0)
              /\ metric \notin {"total_slides", "code", "images"}
                    => metric_out.status = "ValueError"
        /\ ~html.exists => metric_out.status = "FileNotFoundError"

\* The tool was asked for "code_percent" on an existing rendition and raised.
C15_Witness ==
    /\ html.exists /\ Len(html.content) = 3
    /\ metric = "code_percent"
    /\ metric_out.status = "ValueError"

\* ---------------------------------------------------------------------
\* The body of chat_task, step by step
\* ---------------------------------------------------------------------
InitChat ==
    /\ PipelineInit
    /\ raw = <<>>
    /\ out = NoOut
    /\ MetricIdle
    /\ ChatIdle
    /\ WrapIdle

\* Up to the first await: construct the chat, set the model parameters,
\* register the tool and send the free-form turn.
ChatBegin(i) ==
    /\ chat_pc[i] = "idle"
    /\ chat_obj' = [chat_obj EXCEPT ![i] = ChatAnthropic(next_chat)]
    /\ next_chat' = next_chat + 1
    /\ chat_events' = [chat_events EXCEPT
                         ![i] = <<"ChatAnthropic", "register_tool", "chat_async">>]
    /\ chat_pc' = [chat_pc EXCEPT ![i] = "turn1"]
    /\ UNCHANGED <<chat_res1, chat_res2>>
    /\ UNCHANGED pipelineVars
    /\ UNCHANGED framesVars
    /\ UNCHANGED metricVars
    /\ UNCHANGED wrapVars

\* await chat.chat_async(...) returns or raises; on return the reply is
\* printed and the schema-constrained turn is sent.
ChatTurn1(i, outcome) ==
    /\ chat_pc[i] = "turn1"
    /\ chat_res1' = [chat_res1 EXCEPT ![i] = outcome]
    /\ IF outcome = "ok"
       THEN /\ chat_events' = [chat_events EXCEPT ![i] = Append(@, "extract_data_async")]
            /\ chat_pc' = [chat_pc EXCEPT ![i] = "turn2"]
       ELSE /\ chat_pc' = [chat_pc EXCEPT ![i] = "raised"]
            /\ UNCHANGED chat_events
    /\ UNCHANGED <<chat_obj, chat_res2, next_chat>>
    /\ UNCHANGED pipelineVars
    /\ UNCHANGED framesVars
    /\ UNCHANGED metricVars
    /\ UNCHANGED wrapVars

\* await chat.extract_data_async(...) returns or raises; return chat_res2.
ChatTurn2(i, outcome) ==
    /\ chat_pc[i] = "turn2"
    /\ IF outcome = "ok"
       THEN /\ chat_res2' = [chat_res2 EXCEPT
                               ![i] = [conv |-> chat_obj[i], turn |-> "extract_data_async"]]
            /\ chat_pc' = [chat_pc EXCEPT ![i] = "returned"]
       ELSE /\ chat_pc' = [chat_pc EXCEPT ![i] = "raised"]
            /\ UNCHANGED chat_res2
    /\ UNCHANGED <<chat_obj, chat_events, chat_res1, next_chat>>
    /\ UNCHANGED pipelineVars
    /\ UNCHANGED framesVars
    /\ UNCHANGED metricVars
    /\ UNCHANGED wrapVars

NextChat ==
    \/ \E i \in Invocations : ChatBegin(i)
    \/ \E i \in Invocations, o \in {"ok", "raised"} : ChatTurn1(i, o)
    \/ \E i \in Invocations, o \in {"ok", "raised"} : ChatTurn2(i, o)

SpecChat == InitChat /\ [][NextChat]_vars

\* ---------------------------------------------------------------------
\* Properties of the chat_task body (checked under SpecChat)
\* ---------------------------------------------------------------------
IsPrefix(p, q) == Len(p) <= Len(q) /\ \A k \in DOMAIN p : p[k] = q[k]

\* C19: an execution creates a conversation no other execution uses,
\* registers the tool, sends the free-form turn, and sends the
\* schema-constrained turn only after the free-form turn returned; what it
\* returns is the schema-constrained turn's reply on its own conversation.
C19_AnalysisStageOrder ==
    \A i \in Invocations :
        /\ IsPrefix(chat_events[i],
                    <<"ChatAnthropic", "register_tool", "chat_async", "extract_data_async">>)
        /\ \A j \in Invocations :
              (j # i /\ chat_obj[i] # 0) => chat_obj[j] # chat_obj[i]
        /\ "extract_data_async" \in Range(chat_events[i]) => chat_res1[i] = "ok"
        /\ chat_pc[i] = "returned" =>
              /\ Len(chat_events[i]) = 4
              /\ chat_res2[i] = [conv |-> chat_obj[i], turn |-> "extract_data_async"]
        /\ chat_pc[i] # "returned" => chat_res2[i] = NoReply

\* One execution has returned while another one is still in a turn.
C19_Witness ==
    \E i, j \in Invocations :
        /\ chat_pc[i] = "returned"
        /\ chat_pc[j] \in {"turn1", "turn2"}
        /\ chat_obj[i] > chat_obj[j]

\* ---------------------------------------------------------------------
\* add_line_breaks applied to bounded texts and widths
\* ---------------------------------------------------------------------
MaxTextLen == 5
MaxWidth == 4

Chars == {"a", "b", " "}

InitWrap ==
    /\ PipelineInit
    /\ raw = <<>>
    /\ out = NoOut
    /\ MetricIdle
    /\ ChatIdle
    /\ wrapped = NotReturned
    /\ width \in 1..MaxWidth
    /\ \/ \E n \in 0..MaxTextLen : \E cs \in [1..n -> Chars] : text = Str(cs)
       \/ text = [kind |-> "other", chars |-> <<>>]

\* evals["justification"].apply(add_line_breaks), for any width
Wrap ==
    /\ wrapped.kind = "none"
    /\ wrapped' = add_line_breaks(text, width)
    /\ UNCHANGED <<text, width>>
    /\ UNCHANGED pipelineVars
    /\ UNCHANGED framesVars
    /\ UNCHANGED metricVars
    /\ UNCHANGED chatVars

NextWrap == Wrap

SpecWrap == InitWrap /\ [][NextWrap]_vars

\* ---------------------------------------------------------------------
\* Properties of add_line_breaks (checked under SpecWrap)
\* ---------------------------------------------------------------------
\* The lines of a returned string: the pieces between its "<br>" elements
RECURSIVE LinesOf(_)
LinesOf(cs) ==
    IF \A i \in DOMAIN cs : cs[i] # "<br>" THEN <<cs>>
    ELSE LET n == CHOOSE k \in DOMAIN cs :
                     cs[k] = "<br>" /\ \A j \in 1..(k - 1) : cs[j] # "<br>"
         IN  <<SubSeq(cs, 1, n - 1)>> \o LinesOf(SubSeq(cs, n + 1, Len(cs)))

\* The words joined by single blanks
RECURSIVE JoinBlank(_)
JoinBlank(ws) ==
    IF ws = <<>> THEN <<>>
    ELSE IF Len(ws) = 1 THEN ws[1]
    ELSE ws[1] \o <<" ">> \o JoinBlank(Tail(ws))

BrToBlank(cs) == [i \in DOMAIN cs |-> IF cs[i] = "<br>" THEN " " ELSE cs[i]]

\* C22: for a string and a width of at least 1, add_line_breaks returns the
\* words of the text in order, grouped into non-empty lines joined by "<br>"
\* (putting a blank for each "<br>" gives the words joined by single
\* blanks), and a line of more than one word is at most width long; a value
\* that is not a string is returned as it is.
C22_WordsInLinesWithinWidth ==
    wrapped.kind # "none" =>
        IF text.kind # "str" THEN wrapped = text
        ELSE /\ wrapped.kind = "str"
             /\ BrToBlank(wrapped.chars) = JoinBlank(text_split(text.chars))
             /\ wrapped.chars # <<>> =>
                   \A i \in DOMAIN LinesOf(wrapped.chars) :
                      LET line == LinesOf(wrapped.chars)[i] IN
                      /\ line # <<>>
                      /\ " " \in Range(line) => Len(line) <= width

====
